---- MODULE Spec2Model ----
(***************************************************************************)
(* The agent invocation gateway (class MCPRouter of                        *)
(* frontend/utils/mcpRouter.ts) as a state machine.                        *)
(*                                                                         *)
(* JavaScript is single threaded: a handler runs until it awaits a network *)
(* call or a timer, and the promise continuations that follow a settled    *)
(* await (microtasks) run before any other timer or network event.  Each   *)
(* action below is therefore one such uninterrupted run: the start of an   *)
(* operation up to its first pending await, or the continuation after one  *)
(* network or timer event up to the next pending await.                    *)
(***************************************************************************)
EXTENDS Integers, Sequences, FiniteSets, TLC

\* ------------------------------------------------------------------ bounds
\* Top-level gateway calls started in one run
MaxCalls == 1
\* Requests in one invokeBatch
MaxBatch == 2
\* Milliseconds Date.now() may advance in one run
MaxTime == 1
\* Chunks a backend sends in one response body
MaxChunks == 2
\* Distinct values of the random part of a request id
MaxRand == 2

\* ------------------------------------------------------------ program data
\* The timeout every status, cancel and execution-status request is armed with
StatusTimeout == 10000

BaseUrl == "http://localhost:8000"

\* this.agentConfigs as the constructor builds it
InitialAgentConfigs ==
  [ supervisor    |-> [endpoint |-> "/api/agents/supervisor",    timeout |-> 30000, retries |-> 2],
    compliance    |-> [endpoint |-> "/api/agents/compliance",    timeout |-> 60000, retries |-> 3],
    recruiting    |-> [endpoint |-> "/api/agents/recruiting",    timeout |-> 45000, retries |-> 2],
    investments   |-> [endpoint |-> "/api/agents/investments",   timeout |-> 90000, retries |-> 1],
    communication |-> [endpoint |-> "/api/agents/communication", timeout |-> 30000, retries |-> 2],
    analytics     |-> [endpoint |-> "/api/agents/analytics",     timeout |-> 60000, retries |-> 1] ]

\* Property names every plain object inherits from Object.prototype: reading
\* obj[name] for such a name yields a function (truthy) although name is no key
ProtoNames == {"toString"}

\* Keys of the mockResponses table of mockResponse
MockResponseNames ==
  {"supervisor", "compliance", "recruiting", "investments", "communication", "analytics"}

\* Keys of the statusData table of mockAgentStatus
StatusDataNames == {"supervisor", "compliance", "recruiting", "investments"}

\* ------------------------------------------------------------------ inputs
\* Destination names callers pass: registered ones, one that is no key and
\* not inherited, and one that is no key but inherited
AgentIds == {"investments", "nonexistent_agent", "toString"}

Payloads == { [action |-> "roi_projection"] }

ExecutionIds == {"req_x"}

WorkflowTypes == {"compliance_audit"}

WorkflowParams == {"p"}

\* Partial<AgentConfig> values passed to updateAgentConfig
Partials == { [timeout |-> 5000] }

UpdateNames == {"investments", "nonexistent_agent"}

\* ------------------------------------------------------------------- state
VARIABLES
  mockMode,      \* this.mockMode
  agentConfigs,  \* this.agentConfigs: name -> configuration object
  calls,         \* the top-level calls started so far, in start order
  health,        \* the healthCheck in progress or last returned
  batch,         \* the invokeBatch in progress or returned and not yet discarded
  now,           \* Date.now()
  lastUpdate,    \* the arguments of the latest updateAgentConfig call
  env            \* NEXT_PUBLIC_MOCK_MODE as the build configuration exposes it

vars == <<mockMode, agentConfigs, calls, health, batch, now, lastUpdate, env>>

\* --------------------------------------------------------- values and reads
NoId == <<>>

NoData == <<>>

\* An MCPResponse: data and error are absent when NoData and ""
Response(success, data, error, executionId) ==
  [success |-> success, data |-> data, error |-> error, executionId |-> executionId]

NoResult == Response(FALSE, NoData, "", NoId)

\* A lookup that finds no registered name
LookupKindMissesKeys(obj, name) ==
  IF name \in ProtoNames THEN "inherited" ELSE "undefined"

\* obj[name] of a plain object: own key, inherited property, or undefined
LookupKind(obj, name) ==
  IF name \in DOMAIN obj THEN "own"
  ELSE IF name \in ProtoNames THEN "inherited"
  ELSE "undefined"

\* The own enumerable fields of this.agentConfigs[agentId] (an inherited
\* function has none)
ConfigOf(configs, agentId) ==
  IF agentId \in DOMAIN configs THEN configs[agentId] ELSE <<>>

\* `${config.endpoint}`
EndpointOf(config) ==
  IF "endpoint" \in DOMAIN config THEN config.endpoint ELSE "undefined"

\* The delay setTimeout(f, config.timeout) arms: undefined counts as 0
TimeoutOf(config) ==
  IF "timeout" \in DOMAIN config THEN config.timeout ELSE 0

\* generateRequestId: `req_${Date.now()}_${random}`
GenerateRequestId(time, rand) == <<time, rand>>

\* The data mockResponse returns for a destination
MockData(agentId, payload) ==
  IF agentId = "supervisor"
  THEN <<"mock", agentId,
         IF "workflow_type" \in DOMAIN payload THEN payload.workflow_type ELSE "unknown">>
  ELSE IF agentId \in MockResponseNames THEN <<"mock", agentId>>
  ELSE IF agentId \in ProtoNames THEN <<"inherited", agentId>>
  ELSE <<"generic", agentId>>

\* The value mockResponse resolves to once its delay is over
MockResponse(agentId, payload, id) ==
  Response(TRUE, MockData(agentId, payload), "", id)

\* mockAgentStatus
MockAgentStatus(agentId) ==
  Response(TRUE,
           IF agentId \in StatusDataNames THEN <<"status", agentId>>
           ELSE IF agentId \in ProtoNames THEN <<"inherited", agentId>>
           ELSE <<"status", "unknown">>,
           "", NoId)

\* An unknown-agent result without its reason
UnknownAgentNoReason(agentId) == Response(FALSE, NoData, "", NoId)

UnknownAgent(agentId) == Response(FALSE, NoData, "Unknown agent", NoId)

\* ------------------------------------------------------------- call records
\* One gateway call. pc is where it is suspended:
\*   "fetch"  awaiting fetch inside makeRequest (or the bare fetch of a stream)
\*   "body"   awaiting response.json()
\*   "delay"  awaiting the artificial delay of mockResponse
\*   "done"   returned result; "thrown" rejected
\* mock is this.mockMode as read when the call started; timer is the state of
\* makeRequest's timeout: "none", "armed", "fired" (its callback ran
\* controller.abort() and the fetch has not rejected yet) or "cleared"
\* (clearTimeout was called); requests counts the network requests
\* issued; logged says console.error was called with the failure.
Call(op, agentId, payload, pc, mock, url, timeout, timer, reqId, requests, logged, result) ==
  [op |-> op, agentId |-> agentId, payload |-> payload, pc |-> pc, mock |-> mock,
   url |-> url, timeout |-> timeout, timer |-> timer,
   reqId |-> reqId, requests |-> requests, logged |-> logged, result |-> result]

NoUrl == <<>>

NoPayload == <<>>

\* makeRequest up to its await: the timer is armed, then fetch is called
MakeRequest(op, agentId, payload, url, timeout, reqId) ==
  Call(op, agentId, payload, "fetch", FALSE, url, timeout, "armed", reqId, 1, FALSE, NoResult)

Returned(op, agentId, payload, mock, result) ==
  Call(op, agentId, payload, "done", mock, NoUrl, 0, "none", NoId, 0, FALSE, result)

\* An invokeAgent that does not read the mock flag
InvokeAgentStartIgnoresMock(mock, configs, agentId, payload, id) ==
  IF LookupKind(configs, agentId) = "undefined"
  THEN Returned("invoke", agentId, payload, FALSE, UnknownAgent(agentId))
  ELSE MakeRequest("invoke", agentId, payload,
                   <<BaseUrl, EndpointOf(ConfigOf(configs, agentId)), "">>,
                   TimeoutOf(ConfigOf(configs, agentId)), id)

\* invokeAgent up to its first pending await
InvokeAgentStart(mock, configs, agentId, payload, id) ==
  IF mock
  THEN Call("invoke", agentId, payload, "delay", TRUE, NoUrl, 0, "none", NoId, 0, FALSE, NoResult)
  ELSE IF LookupKind(configs, agentId) = "undefined"
  THEN Returned("invoke", agentId, payload, FALSE, UnknownAgent(agentId))
  ELSE MakeRequest("invoke", agentId, payload,
                   <<BaseUrl, EndpointOf(ConfigOf(configs, agentId)), "">>,
                   TimeoutOf(ConfigOf(configs, agentId)), id)

\* getAgentStatus up to its first pending await
GetAgentStatusStart(mock, configs, agentId) ==
  IF mock
  THEN Returned("status", agentId, NoPayload, TRUE, MockAgentStatus(agentId))
  ELSE IF LookupKind(configs, agentId) = "undefined"
  THEN Returned("status", agentId, NoPayload, FALSE, UnknownAgent(agentId))
  ELSE MakeRequest("status", agentId, NoPayload,
                   <<BaseUrl, EndpointOf(ConfigOf(configs, agentId)), "/status">>,
                   StatusTimeout, NoId)

\* cancelExecution up to its first pending await
CancelExecutionStart(mock, executionId) ==
  IF mock
  THEN Returned("cancel", executionId, NoPayload, TRUE,
                Response(TRUE, <<"cancelled_mock", executionId>>, "", NoId))
  ELSE MakeRequest("cancel", executionId, NoPayload,
                   <<BaseUrl, "/api/executions/", executionId, "/cancel">>,
                   StatusTimeout, NoId)

\* A getExecutionStatus that reports an execution it does not know as running
GetExecutionStatusStartPending(mock, executionId) ==
  IF mock
  THEN Returned("execStatus", executionId, NoPayload, TRUE,
                Response(TRUE, <<"running", executionId>>, "", NoId))
  ELSE MakeRequest("execStatus", executionId, NoPayload,
                   <<BaseUrl, "/api/executions/", executionId, "/status">>,
                   StatusTimeout, NoId)

\* getExecutionStatus up to its first pending await
GetExecutionStatusStart(mock, executionId) ==
  IF mock
  THEN Returned("execStatus", executionId, NoPayload, TRUE,
                Response(TRUE, <<"completed", executionId>>, "", NoId))
  ELSE MakeRequest("execStatus", executionId, NoPayload,
                   <<BaseUrl, "/api/executions/", executionId, "/status">>,
                   StatusTimeout, NoId)

\* A catch block that returns the failure to the caller
OnFailureReturnsError(call, err) ==
  [call EXCEPT !.pc = "done", !.logged = TRUE,
               !.result = Response(FALSE, NoData, err, NoId)]

\* A catch block that does not log
OnFailureSilent(call, err) ==
  IF call.op = "invoke"
  THEN [call EXCEPT !.pc = "delay"]
  ELSE IF call.op = "status"
  THEN [call EXCEPT !.pc = "done", !.result = MockAgentStatus(call.agentId)]
  ELSE [call EXCEPT !.pc = "done", !.result = Response(FALSE, NoData, err, NoId)]

\* A catch block that sends the request again while the destination's
\* retries allow it
OnFailureRetries(call, err) ==
  IF call.op = "invoke" /\ call.agentId \in DOMAIN InitialAgentConfigs
     /\ call.requests <= InitialAgentConfigs[call.agentId].retries
  THEN [call EXCEPT !.pc = "fetch", !.timer = "armed", !.requests = @ + 1]
  ELSE IF call.op = "invoke"
  THEN [call EXCEPT !.pc = "delay", !.logged = TRUE]
  ELSE IF call.op = "status"
  THEN [call EXCEPT !.pc = "done", !.logged = TRUE,
                    !.result = MockAgentStatus(call.agentId)]
  ELSE [call EXCEPT !.pc = "done", !.logged = TRUE,
                    !.result = Response(FALSE, NoData, err, NoId)]

\* A catch block that rethrows the failure to the caller
OnFailureRethrows(call, err) ==
  [call EXCEPT !.pc = "thrown", !.logged = TRUE,
               !.result = Response(FALSE, NoData, err, NoId)]

\* A catch block that reads the mock flag again and falls back to synthetic
\* data only when it is on
OnFailureRereadsMock(call, err) ==
  IF call.op \in {"invoke", "status"} /\ ~mockMode
  THEN [call EXCEPT !.pc = "done", !.logged = TRUE,
                    !.result = Response(FALSE, NoData, err, NoId)]
  ELSE IF call.op = "invoke"
  THEN [call EXCEPT !.pc = "delay", !.logged = TRUE]
  ELSE IF call.op = "status"
  THEN [call EXCEPT !.pc = "done", !.logged = TRUE,
                    !.result = MockAgentStatus(call.agentId)]
  ELSE [call EXCEPT !.pc = "done", !.logged = TRUE,
                    !.result = Response(FALSE, NoData, err, NoId)]

\* The catch block of each operation: the failure is logged, then invokeAgent
\* awaits mockResponse, getAgentStatus returns mockAgentStatus, and
\* cancelExecution and getExecutionStatus return the failure
OnFailure(call, err) ==
  IF call.op = "invoke"
  THEN [call EXCEPT !.pc = "delay", !.logged = TRUE]
  ELSE IF call.op = "status"
  THEN [call EXCEPT !.pc = "done", !.logged = TRUE,
                    !.result = MockAgentStatus(call.agentId)]
  ELSE [call EXCEPT !.pc = "done", !.logged = TRUE,
                    !.result = Response(FALSE, NoData, err, NoId)]

\* A fetch that was not handed the signal
AbortedNever(call) == FALSE

\* The signal makeRequest hands to fetch is aborted once the timer callback ran
Aborted(call) == call.timer = "fired"

\* A makeRequest that returns the response without clearing its timer
OnResponseLeavesTimer(call, ok) ==
  IF ok
  THEN [call EXCEPT !.pc = "body"]
  ELSE OnFailure(call, "http")

\* fetch resolved with a response: makeRequest clears the timer and returns
\* it; a status that is not ok is thrown into the catch block
OnResponse(call, ok) ==
  IF ok
  THEN [call EXCEPT !.pc = "body", !.timer = "cleared"]
  ELSE OnFailure([call EXCEPT !.timer = "cleared"], "http")

\* fetch rejected with a transport error: makeRequest clears the timer and
\* rethrows
OnTransportError(call) == OnFailure([call EXCEPT !.timer = "cleared"], "transport")

\* The timer callback of makeRequest: controller.abort()
OnTimer(call) == [call EXCEPT !.timer = "fired"]

\* fetch rejected because its signal was aborted: makeRequest clears the
\* timer and rethrows
OnAbort(call) == OnFailure([call EXCEPT !.timer = "cleared"], "abort")

\* response.json() resolved: the call returns the parsed data
OnBody(call) ==
  [call EXCEPT !.pc = "done", !.result = Response(TRUE, <<"real">>, "", call.reqId)]

\* response.json() rejected
OnBodyError(call) == OnFailure(call, "parse")

\* The delay of mockResponse is over: mockResponse returns, and so does the
\* invokeAgent awaiting it
OnDelay(call, id) ==
  [call EXCEPT !.pc = "done", !.result = MockResponse(call.agentId, call.payload, id)]

\* ------------------------------------------------------------------ streams
\* A ReadableStream: queue holds the chunks enqueued and not yet read, closed
\* says the source closed it, delivered lists the chunks its reader received.
\* source is "mock" for the stream streamAgentResponse builds and "body" for
\* response.body
Stream(source, queue, closed, delivered) ==
  [source |-> source, queue |-> queue, closed |-> closed, delivered |-> delivered]

\* new TextEncoder().encode(JSON.stringify(result)): the keys JSON keeps are
\* those whose value is neither undefined nor a function
Encode(result) ==
  LET kept == {"success"}
                \cup (IF result.data # NoData /\ result.data[1] # "inherited"
                      THEN {"data"} ELSE {})
                \cup (IF result.error # "" THEN {"error"} ELSE {})
                \cup (IF result.executionId # NoId THEN {"executionId"} ELSE {})
  IN <<"utf8", [k \in kept |-> result[k]]>>

\* streamAgentResponse up to its first pending await: "sdelay" awaits
\* mockResponse, "sfetch" the fetch, which has no timer; "thrown" is a
\* rejected call, its result holding the error
StreamAgentResponseStart(mock, configs, agentId, payload, id) ==
  IF mock
  THEN Call("stream", agentId, payload, "sdelay", TRUE, NoUrl, 0, "none", NoId, 0, FALSE,
            NoResult)
  ELSE IF LookupKind(configs, agentId) = "undefined"
  THEN Call("stream", agentId, payload, "thrown", FALSE, NoUrl, 0, "none", NoId, 0, FALSE,
            Response(FALSE, NoData, "Unknown agent", NoId))
  ELSE Call("stream", agentId, payload, "sfetch", FALSE,
            <<BaseUrl, EndpointOf(ConfigOf(configs, agentId)), "/stream">>,
            0, "none", id, 1, FALSE, NoResult)

\* A mock stream whose start callback does not close it
OnStreamDelayLeavesOpen(call, id) ==
  [call EXCEPT !.pc = "done",
               !.result = Stream("mock",
                                 <<Encode(MockResponse(call.agentId, call.payload, id))>>,
                                 FALSE, <<>>)]

\* mockResponse returned: the stream is built, its start callback enqueues
\* the encoded result and closes it, and streamAgentResponse returns it
OnStreamDelay(call, id) ==
  [call EXCEPT !.pc = "done",
               !.result = Stream("mock",
                                 <<Encode(MockResponse(call.agentId, call.payload, id))>>,
                                 TRUE, <<>>)]

\* fetch resolved: response.body is returned, a status that is not ok is thrown
OnStreamResponse(call, ok) ==
  IF ok
  THEN [call EXCEPT !.pc = "done", !.result = Stream("body", <<>>, FALSE, <<>>)]
  ELSE [call EXCEPT !.pc = "thrown", !.result = Response(FALSE, NoData, "http", NoId)]

\* fetch rejected: nothing catches it
OnStreamTransportError(call) ==
  [call EXCEPT !.pc = "thrown", !.result = Response(FALSE, NoData, "transport", NoId)]

\* The backend sends one more chunk of the body
OnStreamChunk(call) ==
  [call EXCEPT !.result.queue =
     Append(@, <<"chunk", Len(call.result.queue) + Len(call.result.delivered) + 1>>)]

\* The backend ends the body
OnStreamEnd(call) == [call EXCEPT !.result.closed = TRUE]

\* The reader of the stream receives the next chunk
OnStreamRead(call) ==
  [call EXCEPT !.result.queue = Tail(@),
               !.result.delivered = Append(@, Head(call.result.queue))]

\* -------------------------------------------------------- fan-out records
\* obj[key] = value on a plain object
Assign(obj, key, value) ==
  [k \in DOMAIN obj \cup {key} |-> IF k = key THEN value ELSE obj[k]]

\* A key list fixed to the destinations of the constructor
ObjectKeysOfConstructor(obj) == DOMAIN obj \cap DOMAIN InitialAgentConfigs

\* Object.keys(obj): the own keys
ObjectKeys(obj) == DOMAIN obj

\* A healthCheck: keys is Object.keys(this.agentConfigs) as read at the call,
\* children the getAgentStatus call of each key, results the object the
\* callbacks fill and healthCheck returns once state is "returned".
\* registered records the names the registry held when healthCheck was called.
IdleHealth ==
  [state |-> "idle", keys |-> {}, children |-> <<>>, results |-> <<>>, registered |-> {}]

\* A healthCheck that returns when the first callback ended
HealthSettleReturnsEarly(h, agentId) ==
  IF h.children[agentId].pc # "done" THEN h
  ELSE [h EXCEPT !.results = Assign(h.results, agentId, h.children[agentId].result),
                 !.state = "returned"]

\* The callback of healthCheck after its await, for the child of agentId:
\* results[agentId] = result; Promise.all resolves when every callback ended
HealthSettle(h, agentId) ==
  IF h.children[agentId].pc # "done" THEN h
  ELSE [h EXCEPT !.results = Assign(h.results, agentId, h.children[agentId].result),
                 !.state = IF \A k \in h.keys : h.children[k].pc = "done"
                           THEN "returned" ELSE "running"]

\* The callbacks of the children that returned without a pending await
RECURSIVE HealthSettleAll(_, _)
HealthSettleAll(h, todo) ==
  IF todo = {} THEN h
  ELSE LET k == CHOOSE x \in todo : TRUE
       IN HealthSettleAll(HealthSettle(h, k), todo \ {k})

\* healthCheck up to its first pending await
HealthCheckStart(mock, configs) ==
  LET keys == ObjectKeys(configs)
      started == [state |-> IF keys = {} THEN "returned" ELSE "running",
                  keys |-> keys,
                  children |-> [k \in keys |-> GetAgentStatusStart(mock, configs, k)],
                  results |-> <<>>,
                  registered |-> {}]
  IN HealthSettleAll(started, keys)

\* An invokeBatch: members[i] is the invokeAgent call of requests[i], order
\* lists the members in the order their callbacks ran
IdleBatch ==
  [state |-> "idle", requests |-> <<>>, members |-> <<>>, results |-> <<>>, order |-> <<>>]

\* An invokeBatch that returns when the first callback ended
BatchSettleReturnsEarly(b, i) ==
  IF b.members[i].pc # "done" THEN b
  ELSE [b EXCEPT !.results = Assign(b.results, b.requests[i].agentId, b.members[i].result),
                 !.order = Append(b.order, i),
                 !.state = "returned"]

\* A callback that keeps the entry its destination already has
BatchSettleKeepsFirst(b, i) ==
  IF b.members[i].pc # "done" THEN b
  ELSE [b EXCEPT !.results = IF b.requests[i].agentId \in DOMAIN b.results
                             THEN b.results
                             ELSE Assign(b.results, b.requests[i].agentId,
                                         b.members[i].result),
                 !.order = Append(b.order, i),
                 !.state = IF \A j \in DOMAIN b.members : b.members[j].pc = "done"
                           THEN "returned" ELSE "running"]

\* The callback of invokeBatch after its await, for member i:
\* results[request.agentId] = result
BatchSettle(b, i) ==
  IF b.members[i].pc # "done" THEN b
  ELSE [b EXCEPT !.results = Assign(b.results, b.requests[i].agentId, b.members[i].result),
                 !.order = Append(b.order, i),
                 !.state = IF \A j \in DOMAIN b.members : b.members[j].pc = "done"
                           THEN "returned" ELSE "running"]

\* The callbacks of the members that returned without a pending await, in
\* request order
RECURSIVE BatchSettleAll(_, _)
BatchSettleAll(b, i) ==
  IF i > Len(b.requests) THEN b
  ELSE BatchSettleAll(BatchSettle(b, i), i + 1)

\* invokeBatch up to its first pending await; ids[i] is the request id
\* generated for member i, if its invokeAgent generates one
InvokeBatchStart(mock, configs, requests, ids) ==
  LET started ==
        [state |-> IF requests = <<>> THEN "returned" ELSE "running",
         requests |-> requests,
         members |-> [i \in DOMAIN requests |->
                        InvokeAgentStart(mock, configs, requests[i].agentId,
                                         requests[i].payload, ids[i])],
         results |-> <<>>,
         order |-> <<>>]
  IN BatchSettleAll(started, 1)

\* ------------------------------------------------------ calls in progress
\* Every call record of the state: top-level calls, healthCheck children and
\* invokeBatch members
Targets ==
  {<<"call", i>> : i \in DOMAIN calls}
    \cup {<<"health", k>> : k \in DOMAIN health.children}
    \cup {<<"batch", i>> : i \in DOMAIN batch.members}

Get(t) ==
  IF t[1] = "call" THEN calls[t[2]]
  ELSE IF t[1] = "health" THEN health.children[t[2]]
  ELSE batch.members[t[2]]

\* The call at t continues to record c, and the callback awaiting it runs
Put(t, c) ==
  /\ calls' = IF t[1] = "call" THEN [calls EXCEPT ![t[2]] = c] ELSE calls
  /\ health' = IF t[1] = "health"
               THEN HealthSettle([health EXCEPT !.children[t[2]] = c], t[2])
               ELSE health
  /\ batch' = IF t[1] = "batch"
              THEN BatchSettle([batch EXCEPT !.members[t[2]] = c], t[2])
              ELSE batch

\* ----------------------------------------------------------------- actions
\* The values of NEXT_PUBLIC_MOCK_MODE, and the one the build configuration
\* supplies when the process environment sets none
EnvValues == {"true", "false"}

DefaultEnv == "true"

\* No updateAgentConfig call yet
NoUpdate == <<>>

Init ==
  /\ mockMode = TRUE
  /\ agentConfigs = InitialAgentConfigs
  /\ calls = <<>>
  /\ health = IdleHealth
  /\ batch = IdleBatch
  /\ now = 0
  /\ lastUpdate = NoUpdate
  /\ env = DefaultEnv

StartCall(c) ==
  /\ Len(calls) < MaxCalls
  /\ calls' = Append(calls, c)
  /\ UNCHANGED <<mockMode, agentConfigs, health, batch, now, lastUpdate, env>>

InvokeAgent(agentId, payload) ==
  \E r \in 1..MaxRand :
    StartCall(InvokeAgentStart(mockMode, agentConfigs, agentId, payload,
                               GenerateRequestId(now, r)))

\* An executeWorkflow that names the workflow under another payload key
ExecuteWorkflowByName(workflowType, params) ==
  InvokeAgent("supervisor",
              [action |-> "execute_workflow", workflowName |-> workflowType,
               params |-> params])

ExecuteWorkflow(workflowType, params) ==
  InvokeAgent("supervisor",
              [action |-> "execute_workflow", workflow_type |-> workflowType,
               params |-> params])

GetAgentStatus(agentId) ==
  StartCall(GetAgentStatusStart(mockMode, agentConfigs, agentId))

CancelExecution(executionId) ==
  StartCall(CancelExecutionStart(mockMode, executionId))

GetExecutionStatus(executionId) ==
  StartCall(GetExecutionStatusStart(mockMode, executionId))

HealthCheck ==
  /\ health.state # "running"
  /\ health' = [HealthCheckStart(mockMode, agentConfigs)
                  EXCEPT !.registered = DOMAIN agentConfigs]
  /\ UNCHANGED <<mockMode, agentConfigs, calls, batch, now, lastUpdate, env>>

InvokeBatch(requests) ==
  /\ batch.state = "idle"
  /\ \E rs \in [{i \in DOMAIN requests :
                    ~mockMode /\ LookupKind(agentConfigs, requests[i].agentId) # "undefined"}
                 -> 1..MaxRand] :
       batch' = InvokeBatchStart(mockMode, agentConfigs, requests,
                                 [i \in DOMAIN requests |->
                                    IF i \in DOMAIN rs THEN GenerateRequestId(now, rs[i])
                                    ELSE NoId])
  /\ UNCHANGED <<mockMode, agentConfigs, calls, health, now, lastUpdate, env>>

\* The caller of a returned invokeBatch is done with the map it received
DiscardBatch ==
  /\ batch.state = "returned"
  /\ batch' = IdleBatch
  /\ UNCHANGED <<mockMode, agentConfigs, calls, health, now, lastUpdate, env>>

\* An update that replaces the entry by the partial configuration
UpdateAgentConfigReplaces(agentId, config) ==
  /\ agentConfigs' =
       IF LookupKind(agentConfigs, agentId) # "undefined"
       THEN Assign(agentConfigs, agentId, config)
       ELSE agentConfigs
  /\ lastUpdate' = [agentId |-> agentId, config |-> config]
  /\ UNCHANGED <<mockMode, calls, health, batch, now, env>>

UpdateAgentConfig(agentId, config) ==
  /\ agentConfigs' =
       IF LookupKind(agentConfigs, agentId) # "undefined"
       THEN Assign(agentConfigs, agentId,
                   [f \in DOMAIN ConfigOf(agentConfigs, agentId) \cup DOMAIN config |->
                      IF f \in DOMAIN config THEN config[f]
                      ELSE ConfigOf(agentConfigs, agentId)[f]])
       ELSE agentConfigs
  /\ lastUpdate' = [agentId |-> agentId, config |-> config]
  /\ UNCHANGED <<mockMode, calls, health, batch, now, env>>

SetMockMode(enabled) ==
  /\ mockMode' = enabled
  /\ UNCHANGED <<agentConfigs, calls, health, batch, now, lastUpdate, env>>

\* Date.now() advances
Tick ==
  /\ now < MaxTime
  /\ now' = now + 1
  /\ UNCHANGED <<mockMode, agentConfigs, calls, health, batch, lastUpdate, env>>

\* The network and the timers
FetchResponse(t, ok) ==
  /\ t \in Targets
  /\ Get(t).pc = "fetch"
  /\ ~Aborted(Get(t))
  /\ Put(t, OnResponse(Get(t), ok))
  /\ UNCHANGED <<mockMode, agentConfigs, now, lastUpdate, env>>

\* A transport failure after which the gateway switches itself to mock mode
FetchTransportErrorSetsMock(t) ==
  /\ t \in Targets
  /\ Get(t).pc = "fetch"
  /\ ~Aborted(Get(t))
  /\ Put(t, OnTransportError(Get(t)))
  /\ mockMode' = TRUE
  /\ UNCHANGED <<agentConfigs, now, lastUpdate, env>>

FetchTransportError(t) ==
  /\ t \in Targets
  /\ Get(t).pc = "fetch"
  /\ ~Aborted(Get(t))
  /\ Put(t, OnTransportError(Get(t)))
  /\ UNCHANGED <<mockMode, agentConfigs, now, lastUpdate, env>>

\* One timer shared by every pending request: its callback aborts them all
TimerFiresShared(t) ==
  /\ t \in Targets
  /\ Get(t).pc = "fetch"
  /\ Get(t).timer = "armed"
  /\ calls' = [i \in DOMAIN calls |->
                 IF calls[i].timer = "armed" THEN OnTimer(calls[i]) ELSE calls[i]]
  /\ health' = [health EXCEPT !.children =
                 [k \in DOMAIN health.children |->
                    IF health.children[k].timer = "armed"
                    THEN OnTimer(health.children[k]) ELSE health.children[k]]]
  /\ batch' = [batch EXCEPT !.members =
                 [i \in DOMAIN batch.members |->
                    IF batch.members[i].timer = "armed"
                    THEN OnTimer(batch.members[i]) ELSE batch.members[i]]]
  /\ UNCHANGED <<mockMode, agentConfigs, now, lastUpdate, env>>

TimerFires(t) ==
  /\ t \in Targets
  /\ Get(t).pc = "fetch"
  /\ Get(t).timer = "armed"
  /\ Put(t, OnTimer(Get(t)))
  /\ UNCHANGED <<mockMode, agentConfigs, now, lastUpdate, env>>

FetchAborted(t) ==
  /\ t \in Targets
  /\ Get(t).pc = "fetch"
  /\ Aborted(Get(t))
  /\ Put(t, OnAbort(Get(t)))
  /\ UNCHANGED <<mockMode, agentConfigs, now, lastUpdate, env>>

BodyParsed(t) ==
  /\ t \in Targets
  /\ Get(t).pc = "body"
  /\ Put(t, OnBody(Get(t)))
  /\ UNCHANGED <<mockMode, agentConfigs, now, lastUpdate, env>>

BodyFails(t) ==
  /\ t \in Targets
  /\ Get(t).pc = "body"
  /\ Put(t, OnBodyError(Get(t)))
  /\ UNCHANGED <<mockMode, agentConfigs, now, lastUpdate, env>>

DelayElapsed(t) ==
  /\ t \in Targets
  /\ Get(t).pc = "delay"
  /\ \E r \in 1..MaxRand : Put(t, OnDelay(Get(t), GenerateRequestId(now, r)))
  /\ UNCHANGED <<mockMode, agentConfigs, now, lastUpdate, env>>

\* The gateway under single calls
Next ==
  \/ \E agentId \in AgentIds, payload \in Payloads : InvokeAgent(agentId, payload)
  \/ \E w \in WorkflowTypes, p \in WorkflowParams : ExecuteWorkflow(w, p)
  \/ \E agentId \in AgentIds : GetAgentStatus(agentId)
  \/ \E e \in ExecutionIds : CancelExecution(e)
  \/ \E e \in ExecutionIds : GetExecutionStatus(e)
  \/ \E enabled \in BOOLEAN : SetMockMode(enabled)
  \/ \E agentId \in UpdateNames, config \in Partials : UpdateAgentConfig(agentId, config)
  \/ \E t \in Targets, ok \in BOOLEAN : FetchResponse(t, ok)
  \/ \E t \in Targets : FetchTransportError(t)
  \/ \E t \in Targets : TimerFires(t)
  \/ \E t \in Targets : FetchAborted(t)
  \/ \E t \in Targets : BodyParsed(t)
  \/ \E t \in Targets : BodyFails(t)
  \/ \E t \in Targets : DelayElapsed(t)

Spec == Init /\ [][Next]_vars

\* The gateway under health checks
HealthUpdateNames == {"toString"}

NextHealth ==
  \/ HealthCheck
  \/ \E enabled \in BOOLEAN : SetMockMode(enabled)
  \/ \E agentId \in HealthUpdateNames, config \in Partials : UpdateAgentConfig(agentId, config)
  \/ \E t \in Targets, ok \in BOOLEAN : FetchResponse(t, ok)
  \/ \E t \in Targets : FetchTransportError(t)
  \/ \E t \in Targets : TimerFires(t)
  \/ \E t \in Targets : FetchAborted(t)
  \/ \E t \in Targets : BodyParsed(t)
  \/ \E t \in Targets : BodyFails(t)

SpecHealth == Init /\ [][NextHealth]_vars

\* The gateway under batches
BatchAgentIds == {"compliance", "recruiting", "nonexistent_agent"}

BatchRequests == [agentId : BatchAgentIds, payload : Payloads]

RECURSIVE SeqsUpTo(_, _)
SeqsUpTo(S, n) ==
  IF n = 0 THEN {<<>>}
  ELSE SeqsUpTo(S, n - 1) \cup {Append(q, x) : q \in {y \in SeqsUpTo(S, n - 1) : Len(y) = n - 1}, x \in S}

NextBatch ==
  \/ \E requests \in SeqsUpTo(BatchRequests, MaxBatch) : InvokeBatch(requests)
  \/ DiscardBatch
  \/ \E enabled \in BOOLEAN : SetMockMode(enabled)
  \/ \E t \in Targets, ok \in BOOLEAN : FetchResponse(t, ok)
  \/ \E t \in Targets : FetchTransportError(t)
  \/ \E t \in Targets : TimerFires(t)
  \/ \E t \in Targets : FetchAborted(t)
  \/ \E t \in Targets : BodyParsed(t)
  \/ \E t \in Targets : BodyFails(t)
  \/ \E t \in Targets : DelayElapsed(t)

SpecBatch == Init /\ [][NextBatch]_vars

\* The registry under updates
ConfigNames == {"investments", "nonexistent_agent", "toString"}

ConfigPartials ==
  { [timeout |-> 5000],
    [retries |-> 0],
    [endpoint |-> "/api/v2/agents", timeout |-> 1],
    [timeout |-> 0] }

NextConfig ==
  \/ \E agentId \in ConfigNames, config \in ConfigPartials : UpdateAgentConfig(agentId, config)
  \/ \E enabled \in BOOLEAN : SetMockMode(enabled)

SpecConfig == Init /\ [][NextConfig]_vars

\* The gateway under streams
StreamAgentResponse(agentId, payload) ==
  \E r \in 1..MaxRand :
    StartCall(StreamAgentResponseStart(mockMode, agentConfigs, agentId, payload,
                                       GenerateRequestId(now, r)))

StreamDelayElapsed(t) ==
  /\ t \in Targets
  /\ Get(t).pc = "sdelay"
  /\ \E r \in 1..MaxRand : Put(t, OnStreamDelay(Get(t), GenerateRequestId(now, r)))
  /\ UNCHANGED <<mockMode, agentConfigs, now, lastUpdate, env>>

StreamFetchResponse(t, ok) ==
  /\ t \in Targets
  /\ Get(t).pc = "sfetch"
  /\ Put(t, OnStreamResponse(Get(t), ok))
  /\ UNCHANGED <<mockMode, agentConfigs, now, lastUpdate, env>>

StreamFetchTransportError(t) ==
  /\ t \in Targets
  /\ Get(t).pc = "sfetch"
  /\ Put(t, OnStreamTransportError(Get(t)))
  /\ UNCHANGED <<mockMode, agentConfigs, now, lastUpdate, env>>

\* A returned stream
IsStream(c) == c.op = "stream" /\ c.pc = "done"

StreamChunkArrives(t) ==
  /\ t \in Targets
  /\ IsStream(Get(t))
  /\ Get(t).result.source = "body"
  /\ ~Get(t).result.closed
  /\ Len(Get(t).result.queue) + Len(Get(t).result.delivered) < MaxChunks
  /\ Put(t, OnStreamChunk(Get(t)))
  /\ UNCHANGED <<mockMode, agentConfigs, now, lastUpdate, env>>

StreamEnds(t) ==
  /\ t \in Targets
  /\ IsStream(Get(t))
  /\ Get(t).result.source = "body"
  /\ ~Get(t).result.closed
  /\ Put(t, OnStreamEnd(Get(t)))
  /\ UNCHANGED <<mockMode, agentConfigs, now, lastUpdate, env>>

StreamRead(t) ==
  /\ t \in Targets
  /\ IsStream(Get(t))
  /\ Get(t).result.queue # <<>>
  /\ Put(t, OnStreamRead(Get(t)))
  /\ UNCHANGED <<mockMode, agentConfigs, now, lastUpdate, env>>

NextStream ==
  \/ \E agentId \in AgentIds, payload \in Payloads : StreamAgentResponse(agentId, payload)
  \/ \E enabled \in BOOLEAN : SetMockMode(enabled)
  \/ \E t \in Targets : StreamDelayElapsed(t)
  \/ \E t \in Targets, ok \in BOOLEAN : StreamFetchResponse(t, ok)
  \/ \E t \in Targets : StreamFetchTransportError(t)
  \/ \E t \in Targets : StreamChunkArrives(t)
  \/ \E t \in Targets : StreamEnds(t)
  \/ \E t \in Targets : StreamRead(t)

SpecStream == Init /\ [][NextStream]_vars

\* The gateway as constructed under either value of the environment and used
\* without any call of setMockMode
InitEnv ==
  /\ mockMode = TRUE
  /\ agentConfigs = InitialAgentConfigs
  /\ calls = <<>>
  /\ health = IdleHealth
  /\ batch = IdleBatch
  /\ now = 0
  /\ lastUpdate = NoUpdate
  /\ env \in EnvValues

NextEnv ==
  \/ \E agentId \in AgentIds, payload \in Payloads : InvokeAgent(agentId, payload)
  \/ \E w \in WorkflowTypes, p \in WorkflowParams : ExecuteWorkflow(w, p)
  \/ \E agentId \in AgentIds : GetAgentStatus(agentId)
  \/ \E e \in ExecutionIds : CancelExecution(e)
  \/ \E e \in ExecutionIds : GetExecutionStatus(e)
  \/ \E agentId \in AgentIds, payload \in Payloads : StreamAgentResponse(agentId, payload)
  \/ \E agentId \in UpdateNames, config \in Partials : UpdateAgentConfig(agentId, config)
  \/ \E t \in Targets : DelayElapsed(t)
  \/ \E t \in Targets : StreamDelayElapsed(t)
  \/ \E t \in Targets : StreamRead(t)

SpecEnv == InitEnv /\ [][NextEnv]_vars

\* The gateway under every operation, where a caller starts an operation
\* when no other one is in progress
DiscardHealth ==
  /\ health.state = "returned"
  /\ health' = IdleHealth
  /\ UNCHANGED <<mockMode, agentConfigs, calls, batch, now, lastUpdate, env>>

Quiet == calls = <<>> /\ health.state = "idle" /\ batch.state = "idle"

FrameAgentIds == {"recruiting", "nonexistent_agent"}

FrameRequests == [agentId : FrameAgentIds, payload : Payloads]

NextFrame ==
  \/ Quiet /\ \E agentId \in AgentIds, payload \in Payloads : InvokeAgent(agentId, payload)
  \/ Quiet /\ \E w \in WorkflowTypes, p \in WorkflowParams : ExecuteWorkflow(w, p)
  \/ Quiet /\ \E agentId \in AgentIds : GetAgentStatus(agentId)
  \/ Quiet /\ \E e \in ExecutionIds : CancelExecution(e)
  \/ Quiet /\ \E e \in ExecutionIds : GetExecutionStatus(e)
  \/ Quiet /\ \E agentId \in AgentIds, payload \in Payloads :
                 StreamAgentResponse(agentId, payload)
  \/ Quiet /\ HealthCheck
  \/ Quiet /\ \E requests \in SeqsUpTo(FrameRequests, MaxBatch) : InvokeBatch(requests)
  \/ DiscardHealth
  \/ DiscardBatch
  \/ \E enabled \in BOOLEAN : SetMockMode(enabled)
  \/ \E agentId \in UpdateNames, config \in Partials : UpdateAgentConfig(agentId, config)
  \/ \E t \in Targets, ok \in BOOLEAN : FetchResponse(t, ok)
  \/ \E t \in Targets : FetchTransportError(t)
  \/ \E t \in Targets : TimerFires(t)
  \/ \E t \in Targets : FetchAborted(t)
  \/ \E t \in Targets : BodyParsed(t)
  \/ \E t \in Targets : BodyFails(t)
  \/ \E t \in Targets : DelayElapsed(t)
  \/ \E t \in Targets : StreamDelayElapsed(t)
  \/ \E t \in Targets, ok \in BOOLEAN : StreamFetchResponse(t, ok)
  \/ \E t \in Targets : StreamFetchTransportError(t)
  \/ \E t \in Targets : StreamChunkArrives(t)
  \/ \E t \in Targets : StreamEnds(t)
  \/ \E t \in Targets : StreamRead(t)

SpecFrame == Init /\ [][NextFrame]_vars

\* The gateway under single calls, where an aborted fetch rejects
SpecFair ==
  Spec /\ \A i \in 1..MaxCalls : WF_vars(FetchAborted(<<"call", i>>))

\* The gateway under single calls, where armed timers fire: the timer of
\* makeRequest, the abort it causes, and the delay of mockResponse
SpecLive ==
  Spec /\ \A i \in 1..MaxCalls :
            /\ WF_vars(TimerFires(<<"call", i>>))
            /\ WF_vars(FetchAborted(<<"call", i>>))
            /\ WF_vars(DelayElapsed(<<"call", i>>))

\* ================================================================== claims
\* Every call record of the state
AllCalls == {Get(t) : t \in Targets}

RECURSIVE SumRequests(_)
SumRequests(cs) == IF cs = <<>> THEN 0 ELSE Head(cs).requests + SumRequests(Tail(cs))

\* The number of network requests the top-level calls have issued
NetworkCalls == SumRequests(calls)

\* A returned call whose result is synthetic although it issued a request
IsFallback(c) ==
  /\ c.pc = "done"
  /\ c.requests > 0
  /\ c.result.success
  /\ c.result.data # <<"real">>

\* C1 (as claimed): for every destination name that is not a key of the
\* registry, invokeAgent returns success = false with the unknown-agent reason,
\* in mock mode and in connected mode alike
C1_UnknownAlwaysFails ==
  \A c \in AllCalls :
    (c.op = "invoke" /\ c.pc = "done" /\ c.agentId \notin DOMAIN agentConfigs)
      => (~c.result.success /\ c.result.error = "Unknown agent")

\* C2: in connected mode, an invokeAgent on a registered destination never
\* returns success = false: a call whose request failed returns the synthetic
\* response of its destination
C2_KnownNeverFails ==
  \A c \in AllCalls :
    (c.op = "invoke" /\ ~c.mock /\ c.agentId \in DOMAIN agentConfigs /\ c.pc = "done")
      => /\ c.result.success
         /\ c.logged => c.result.data = MockData(c.agentId, c.payload)

C2_Witness ==
  \E c \in AllCalls :
    /\ c.op = "invoke" /\ ~c.mock /\ c.agentId \in DOMAIN agentConfigs
    /\ c.pc = "done" /\ c.logged /\ c.result.success

\* C3: while the mock flag is and stays true, no step issues a network
\* request: the number of attempted network calls does not change
C3_NoRequestInMockMode ==
  [][(mockMode /\ mockMode') => NetworkCalls' = NetworkCalls]_vars

C3_Witness ==
  /\ mockMode
  /\ \E c \in AllCalls : c.op = "invoke" /\ c.mock /\ c.pc = "done" /\ c.requests = 0
  /\ NetworkCalls = 0

\* C4: the map healthCheck returns has exactly the names registered when it
\* was called as its keys
C4_HealthKeys ==
  health.state = "returned" => DOMAIN health.results = health.registered

C4_Witness ==
  /\ health.state = "returned"
  /\ "toString" \in health.registered
  /\ DOMAIN InitialAgentConfigs \subseteq health.registered
  /\ \E k \in health.keys : ~health.children[k].mock /\ health.children[k].logged
  /\ \E k \in health.keys : ~health.children[k].mock /\ ~health.children[k].logged

\* C5: healthCheck has started the status query of every registered
\* destination before it awaits, returns only when all of them have returned,
\* and each entry of its map is the result of the query of that destination
C5_HealthFanOut ==
  /\ health.state \in {"running", "returned"} =>
       \A k \in health.registered :
         /\ k \in DOMAIN health.children
         /\ health.children[k].op = "status" /\ health.children[k].agentId = k
         /\ health.children[k].mock \/ health.children[k].requests = 1
  /\ health.state = "returned" =>
       \A k \in health.registered : health.children[k].pc = "done"
  /\ \A k \in DOMAIN health.results :
       /\ health.children[k].pc = "done"
       /\ health.results[k] = health.children[k].result
       /\ health.results[k].data =
            IF health.children[k].mock \/ health.children[k].logged
            THEN MockAgentStatus(k).data ELSE <<"real">>

C5_Witness ==
  /\ health.state = "returned"
  /\ health.children["supervisor"].requests = 1 /\ health.children["supervisor"].logged
  /\ health.children["compliance"].requests = 1 /\ ~health.children["compliance"].logged
  /\ health.results["supervisor"].data = <<"status", "supervisor">>
  /\ health.results["compliance"].data = <<"real">>

\* The requests of the batch name pairwise distinct destinations
DistinctDestinations ==
  \A i, j \in DOMAIN batch.requests :
    batch.requests[i].agentId = batch.requests[j].agentId => i = j

\* C6: a batch over pairwise distinct destinations starts every member,
\* returns only when every member has returned, and returns a map whose keys
\* are the requested destinations, each with the result of its own request
C6_BatchDistinct ==
  DistinctDestinations =>
    /\ batch.state \in {"running", "returned"} =>
         /\ DOMAIN batch.members = DOMAIN batch.requests
         /\ \A i \in DOMAIN batch.requests :
              /\ batch.members[i].op = "invoke"
              /\ batch.members[i].agentId = batch.requests[i].agentId
              /\ batch.members[i].payload = batch.requests[i].payload
    /\ batch.state = "returned" =>
         /\ \A i \in DOMAIN batch.members : batch.members[i].pc = "done"
         /\ DOMAIN batch.results = {batch.requests[i].agentId : i \in DOMAIN batch.requests}
         /\ \A i \in DOMAIN batch.requests :
              batch.results[batch.requests[i].agentId] = batch.members[i].result

C6_Witness ==
  /\ batch.state = "returned"
  /\ Len(batch.requests) = 2 /\ DistinctDestinations
  /\ batch.order = <<2, 1>>
  /\ batch.members[1].requests = 1 /\ batch.members[1].logged
  /\ batch.members[2].result.data = <<"real">>

\* The member that completed last among those for destination a
LastCompleted(a) ==
  LET js == {j \in DOMAIN batch.order : batch.requests[batch.order[j]].agentId = a}
  IN batch.order[CHOOSE j \in js : \A k \in js : k <= j]

\* C7: the entry of a destination is the result of the member for it that
\* completed last, whatever its place among the requests
C7_LastCompletionWins ==
  \A a \in DOMAIN batch.results :
    batch.results[a] = batch.members[LastCompleted(a)].result

C7_Witness ==
  /\ batch.state = "returned"
  /\ Len(batch.requests) = 2
  /\ batch.requests[1].agentId = batch.requests[2].agentId
  /\ batch.order = <<2, 1>>
  /\ batch.members[1].result # batch.members[2].result
  /\ batch.results[batch.requests[1].agentId] = batch.members[1].result

\* C8 (as claimed): across invokeAgent, executeWorkflow, getAgentStatus,
\* cancelExecution and getExecutionStatus, success = false is returned only for
\* a destination absent from the registry, and every backend failure yields
\* success = true
C8_FailureOnlyForUnknown ==
  \A c \in AllCalls :
    c.pc = "done" =>
      /\ ~c.result.success =>
           (c.op \in {"invoke", "status"} /\ c.agentId \notin DOMAIN agentConfigs)
      /\ c.logged => c.result.success

\* C8 (amended): invokeAgent, executeWorkflow and getAgentStatus return
\* success = false only for a destination absent from the registry and
\* success = true after every backend failure; cancelExecution and
\* getExecutionStatus return success = false exactly after a backend failure
C8_FailureOnlyForUnknownOrExecution ==
  \A c \in AllCalls :
    c.pc = "done" =>
      /\ c.op \in {"invoke", "status"} =>
           /\ ~c.result.success => (c.agentId \notin DOMAIN agentConfigs /\ ~c.mock)
           /\ c.logged => c.result.success
      /\ c.op \in {"cancel", "execStatus"} =>
           /\ c.result.success <=> ~c.logged
           /\ c.logged => (~c.mock /\ c.requests = 1 /\ c.result.error # "")

C8_Witness ==
  \E c \in AllCalls :
    /\ c.op = "cancel" /\ c.pc = "done" /\ c.logged
    /\ ~c.result.success /\ c.result.error = "http"

\* C9: a synthetic result that invokeAgent or getAgentStatus returns after a
\* failed network call is preceded by the log of the failure: the failure is
\* logged while invokeAgent still awaits the synthetic response
C9_FailureLoggedBeforeFallback ==
  \A c \in AllCalls :
    c.op \in {"invoke", "status"} =>
      /\ IsFallback(c) => c.logged
      /\ (c.pc = "delay" /\ c.requests > 0) => c.logged

C9_Witness ==
  \E c \in AllCalls : c.op = "status" /\ IsFallback(c) /\ c.logged

\* C10: once the timer of a pending request has fired, the fetch is aborted:
\* the call is still awaiting the fetch, the only step it takes is into its
\* failure handling, and it takes that step
C10_TimerAbortsPendingCall ==
  /\ [][\A t \in Targets :
          Get(t).timer = "fired" =>
            /\ Get(t).pc = "fetch"
            /\ \/ Get(t)' = Get(t)
               \/ Get(t)'.logged /\ Get(t)'.pc \in {"delay", "done"}
                    /\ Get(t)'.result.data # <<"real">>]_vars
  /\ \A i \in 1..MaxCalls :
       (i \in DOMAIN calls /\ calls[i].timer = "fired")
         ~> (i \in DOMAIN calls /\ calls[i].logged /\ calls[i].pc # "fetch")

C10_Witness ==
  \E c \in AllCalls :
    /\ c.op = "invoke" /\ c.pc = "fetch" /\ c.requests = 1
    /\ c.timer = "fired" /\ c.timeout = 90000 /\ Aborted(c)

\* C11: with several requests pending at once, each has its own timer and
\* its own abort signal: a step in which the timer of one pending call fires,
\* or in which one pending call receives its response or its failure, leaves
\* every other call as it was, pending calls included
C11_IndependentTimers ==
  [][\A t \in Targets \cap Targets' :
       (Get(t).pc = "fetch" /\ Get(t)' # Get(t)) =>
         \A u \in (Targets \cap Targets') \ {t} : Get(u)' = Get(u)]_vars

C11_Witness ==
  /\ batch.state = "running"
  /\ Len(batch.members) = 2
  /\ batch.members[1].pc = "fetch" /\ batch.members[1].timer = "fired"
  /\ batch.members[2].pc = "fetch" /\ batch.members[2].timer = "armed"
  /\ batch.members[1].timeout # batch.members[2].timeout

\* C12 (as claimed): every network call issued for a destination, by
\* invokeAgent and by getAgentStatus alike, is armed with the timeout the
\* registry holds for that destination when the call starts
C12_TimeoutFromRegistry ==
  [][Len(calls') > Len(calls) =>
       LET c == calls'[Len(calls')]
       IN (c.op \in {"invoke", "status"} /\ c.requests = 1) =>
            c.timeout = TimeoutOf(ConfigOf(agentConfigs, c.agentId))]_vars

\* C13: in connected mode an invokeAgent on a known destination issues
\* exactly one network request, whatever the retries of the destination and
\* whatever the outcome of the request, until and after it returns
C13_OneRequestPerInvoke ==
  \A c \in AllCalls :
    (c.op = "invoke" /\ ~c.mock /\ LookupKind(agentConfigs, c.agentId) # "undefined")
      => c.requests = 1

C13_Witness ==
  \E c \in AllCalls :
    /\ c.op = "invoke" /\ ~c.mock /\ c.agentId = "supervisor"
    /\ InitialAgentConfigs[c.agentId].retries = 2
    /\ c.pc = "done" /\ c.logged /\ c.requests = 1

\* C14 (as claimed): every invokeAgent eventually returns a result, in both
\* modes and whatever the backend does, given that armed timers fire
C14_EveryInvokeReturns ==
  \A i \in 1..MaxCalls :
    (i \in DOMAIN calls /\ calls[i].op = "invoke")
      ~> (i \in DOMAIN calls /\ calls[i].pc = "done")

\* C15 (as claimed): after updateAgentConfig(name, partial) the name is
\* registered and its entry holds the supplied fields with the supplied
\* values, whether the name was present or absent before
C15_UpdateCreatesOrSets ==
  lastUpdate # NoUpdate =>
    /\ lastUpdate.agentId \in DOMAIN agentConfigs
    /\ \A f \in DOMAIN lastUpdate.config :
         /\ f \in DOMAIN agentConfigs[lastUpdate.agentId]
         /\ agentConfigs[lastUpdate.agentId][f] = lastUpdate.config[f]

\* C16: updateAgentConfig(name, partial) leaves unchanged every field of the
\* entry of name that partial does not mention, the entry of every other
\* destination, the set of other registered names, and the mock flag
C16_UpdateFrame ==
  [][(lastUpdate' # lastUpdate \/ agentConfigs' # agentConfigs) =>
       LET name == lastUpdate'.agentId
           partial == lastUpdate'.config
       IN /\ mockMode' = mockMode
          /\ DOMAIN agentConfigs \subseteq DOMAIN agentConfigs'
          /\ DOMAIN agentConfigs' \subseteq DOMAIN agentConfigs \cup {name}
          /\ \A k \in DOMAIN agentConfigs \ {name} : agentConfigs'[k] = agentConfigs[k]
          /\ name \in DOMAIN agentConfigs =>
               \A f \in DOMAIN agentConfigs[name] \ DOMAIN partial :
                 /\ f \in DOMAIN agentConfigs'[name]
                 /\ agentConfigs'[name][f] = agentConfigs[name][f]]_vars

C16_Witness ==
  /\ lastUpdate # NoUpdate
  /\ lastUpdate.agentId = "investments"
  /\ lastUpdate.config = [retries |-> 0]
  /\ agentConfigs["investments"] =
       [endpoint |-> "/api/v2/agents", timeout |-> 1, retries |-> 0]
  /\ agentConfigs["supervisor"] = InitialAgentConfigs["supervisor"]

\* C17 (as claimed): executeWorkflow(workflowName, params) is the call
\* invokeAgent('supervisor', {action: 'execute_workflow', workflowName, params})
C17_ExecuteWorkflowByName ==
  [][\A w \in WorkflowTypes, p \in WorkflowParams :
       ExecuteWorkflow(w, p) =>
         InvokeAgent("supervisor",
                     [action |-> "execute_workflow", workflowName |-> w, params |-> p])]_vars

\* C17 (amended): executeWorkflow(workflowType, params) is the call
\* invokeAgent('supervisor', {action: 'execute_workflow', workflow_type:
\* workflowType, params}): it takes the step that call takes, targets the
\* supervisor only with these three payload fields, issues one request to the
\* supervisor's endpoint in connected mode and none in mock mode, and returns
\* the backend's data or the supervisor's synthetic response for that payload
C17_ExecuteWorkflowIsInvoke ==
  /\ [][\A w \in WorkflowTypes, p \in WorkflowParams :
          ExecuteWorkflow(w, p) =>
            /\ InvokeAgent("supervisor",
                            [action |-> "execute_workflow", workflow_type |-> w,
                             params |-> p])
            /\ LET c == calls'[Len(calls')]
               IN /\ Len(calls') = Len(calls) + 1
                  /\ c.op = "invoke" /\ c.agentId = "supervisor"
                  /\ c.payload.action = "execute_workflow"
                  /\ c.payload.workflow_type = w /\ c.payload.params = p
                  /\ DOMAIN c.payload = {"action", "workflow_type", "params"}
                  /\ c.mock = mockMode
                  /\ c.requests = IF mockMode THEN 0 ELSE 1
                  /\ ~mockMode =>
                       /\ c.url = <<BaseUrl, agentConfigs["supervisor"].endpoint, "">>
                       /\ c.timeout = agentConfigs["supervisor"].timeout]_vars
  /\ [](\A c \in AllCalls :
          (c.pc = "done" /\ "action" \in DOMAIN c.payload
             /\ c.payload.action = "execute_workflow") =>
            /\ c.result.success
            /\ c.result.data =
                 IF c.mock \/ c.logged
                 THEN <<"mock", "supervisor", c.payload.workflow_type>>
                 ELSE <<"real">>)

C17_Witness ==
  \E c \in AllCalls :
    /\ c.op = "invoke" /\ c.agentId = "supervisor" /\ c.pc = "done"
    /\ c.payload = [action |-> "execute_workflow", workflow_type |-> "compliance_audit",
                    params |-> "p"]
    /\ ~c.mock /\ c.logged /\ c.requests = 1
    /\ c.result.data = <<"mock", "supervisor", "compliance_audit">>

\* C18 (as claimed): whatever the destination name and the payload,
\* mockResponse returns success = true without an error, with the payload of
\* the destination for each of the six known names and the generic payload
\* for every other name
C18_MockResponseAlwaysSucceeds ==
  \A c \in AllCalls :
    (c.op = "invoke" /\ c.pc = "done" /\ (c.mock \/ c.logged)) =>
      /\ c.result.success
      /\ c.result.error = ""
      /\ IF c.agentId \in MockResponseNames
         THEN c.result.data[1] = "mock" /\ c.result.data[2] = c.agentId
         ELSE c.result.data = <<"generic", c.agentId>>

\* C19 (as claimed): the executionId of the result of an invokeAgent that
\* issued a request is the request id generated for that request, when the
\* request succeeded and when the call fell back to the synthetic response
C19_ResultCarriesRequestId ==
  \A c \in AllCalls :
    (c.op = "invoke" /\ c.pc = "done" /\ c.requests = 1) =>
      c.result.executionId = c.reqId

\* C20 (as claimed): no two results returned in one run carry the same
\* correlation id, the results of the members of one invokeBatch included
C20_IdsUnique ==
  batch.state = "returned" =>
    \A a, b \in DOMAIN batch.results :
      (/\ a # b
       /\ batch.results[a].executionId # NoId
       /\ batch.results[b].executionId # NoId)
        => batch.results[a].executionId # batch.results[b].executionId

\* C21: every result an operation returns has data exactly when success is
\* true and a failure reason exactly when success is false
C21_DataIffSuccess ==
  \A c \in AllCalls :
    c.pc = "done" =>
      /\ c.result.success <=> c.result.data # NoData
      /\ ~c.result.success <=> c.result.error # ""

C21_Witness ==
  \E c \in AllCalls :
    /\ c.op = "invoke" /\ c.agentId = "nonexistent_agent" /\ ~c.mock /\ c.pc = "done"
    /\ ~c.result.success /\ c.result.data = NoData /\ c.result.error = "Unknown agent"

\* C23: in mock mode cancelExecution and getExecutionStatus return at once
\* with success = true, getExecutionStatus with status completed, for an id
\* no invocation ever issued, and issue no network request
C23_MockExecutionOps ==
  \A c \in AllCalls :
    (c.op \in {"cancel", "execStatus"} /\ c.mock) =>
      /\ c.pc = "done" /\ c.requests = 0 /\ c.timer = "none"
      /\ c.result.success /\ c.result.error = ""
      /\ c.result.data = IF c.op = "cancel"
                         THEN <<"cancelled_mock", c.agentId>>
                         ELSE <<"completed", c.agentId>>

C23_Witness ==
  /\ NetworkCalls = 0
  /\ \E c \in AllCalls :
       /\ c.op = "execStatus" /\ c.mock /\ c.pc = "done"
       /\ c.agentId = "req_x"
       /\ c.result.data = <<"completed", "req_x">>

\* C27: invokeAgent and getAgentStatus read the mock flag once, when they
\* start: a call started in connected mode has issued its request and a call
\* started in mock mode has issued none, whatever the flag is later; changing
\* the flag changes no call; and after a failed request the call returns the
\* synthetic result whatever the flag is then
C27_FlagReadOnce ==
  /\ [](\A c \in AllCalls :
          c.op \in {"invoke", "status"} =>
            /\ c.mock => c.requests = 0
            /\ (~c.mock /\ LookupKind(agentConfigs, c.agentId) # "undefined")
                 => c.requests = 1
            /\ (c.pc = "done" /\ (c.mock \/ c.logged)) =>
                 /\ c.result.success
                 /\ c.result.data = IF c.op = "invoke"
                                    THEN MockData(c.agentId, c.payload)
                                    ELSE MockAgentStatus(c.agentId).data)
  /\ [][mockMode' # mockMode => calls' = calls]_vars

C27_Witness ==
  /\ mockMode
  /\ \E c \in AllCalls :
       /\ c.op = "status" /\ ~c.mock /\ c.requests = 1
       /\ c.pc = "done" /\ c.logged
       /\ c.result.data = <<"status", "investments">>

\* C30: a request that has settled has no armed timer: the timer is cleared
\* in the step in which the response or the failure arrives, and it fires
\* only for a call that is still awaiting its fetch
C30_TimerClearedOnSettle ==
  /\ [](\A c \in AllCalls :
          /\ (c.pc # "fetch" /\ c.requests > 0) => c.timer = "cleared"
          /\ c.timer \in {"armed", "fired"} => c.pc = "fetch")
  /\ [][\A t \in Targets \cap Targets' :
          (Get(t).pc = "fetch" /\ Get(t)'.pc # "fetch") => Get(t)'.timer = "cleared"]_vars

C30_Witness ==
  \E c \in AllCalls :
    /\ c.op = "invoke" /\ c.pc = "body" /\ c.requests = 1 /\ c.timer = "cleared"

\* C22: a streamAgentResponse started in mock mode issues no network
\* request, and the stream it returns is closed and carries exactly one
\* chunk, the encoded synthetic result of its destination: its reader never
\* receives a second chunk
C22_MockStreamOneChunk ==
  \A c \in AllCalls :
    (c.op = "stream" /\ c.mock) =>
      /\ c.requests = 0
      /\ c.pc \in {"sdelay", "done"}
      /\ c.pc = "done" =>
           /\ c.result.source = "mock"
           /\ c.result.closed
           /\ Len(c.result.delivered) <= 1
           /\ \E r \in 1..MaxRand :
                c.result.delivered \o c.result.queue =
                  <<Encode(MockResponse(c.agentId, c.payload, GenerateRequestId(now, r)))>>

C22_Witness ==
  \E c \in AllCalls :
    /\ c.op = "stream" /\ c.mock /\ c.pc = "done" /\ c.agentId = "investments"
    /\ c.result.closed /\ c.result.queue = <<>>
    /\ Len(c.result.delivered) = 1
    /\ c.result.delivered[1][2].data = <<"mock", "investments">>

C24_InitialFlagFromEnv ==
  \A c \in AllCalls :
    c.op = "invoke" =>
      /\ c.mock = (env = "true")
      /\ (env = "false" /\ c.agentId \in DOMAIN agentConfigs) => c.requests = 1

\* C26 (as claimed): in every reachable state every registry entry has a
\* timeout greater than 0 and retries of at least 0, after any sequence of
\* updateAgentConfig calls
C26_ConfigsValid ==
  \A k \in DOMAIN agentConfigs :
    /\ "timeout" \in DOMAIN agentConfigs[k] => agentConfigs[k].timeout > 0
    /\ "retries" \in DOMAIN agentConfigs[k] => agentConfigs[k].retries >= 0

\* C25: the mock flag changes only in a step of setMockMode and the registry
\* only in a step of updateAgentConfig: every step of invokeAgent,
\* executeWorkflow, getAgentStatus, healthCheck, invokeBatch,
\* streamAgentResponse, cancelExecution and getExecutionStatus, whether the
\* request succeeds or fails, leaves both as they were
C25_OnlySettersMutate ==
  [][/\ mockMode' # mockMode => \E enabled \in BOOLEAN : SetMockMode(enabled)
     /\ agentConfigs' # agentConfigs =>
          \E agentId \in UpdateNames, config \in Partials : UpdateAgentConfig(agentId, config)
     /\ (calls' # calls \/ health' # health \/ batch' # batch) =>
          (mockMode' = mockMode /\ agentConfigs' = agentConfigs)]_vars

C25_Witness ==
  /\ ~mockMode
  /\ agentConfigs = InitialAgentConfigs
  /\ health.state = "returned"
  /\ health.children["supervisor"].logged
  /\ ~health.children["compliance"].logged /\ ~health.children["compliance"].mock

\* C28: invokeAgent, getAgentStatus, healthCheck and invokeBatch never
\* reject: no call of invokeAgent or getAgentStatus, alone or as a member, ends
\* thrown, a call whose request failed returns a result, and a returned
\* healthCheck or invokeBatch holds the result of every member, the failed
\* ones included
C28_NeverRejects ==
  /\ \A c \in AllCalls :
       c.op \in {"invoke", "status"} =>
         /\ c.pc # "thrown"
         /\ c.logged => (c.pc \in {"delay", "done"} /\ (c.pc = "done" => c.result.success))
  /\ health.state = "returned" =>
       \A k \in health.keys :
         /\ health.children[k].pc = "done"
         /\ k \in DOMAIN health.results
  /\ batch.state = "returned" =>
       \A i \in DOMAIN batch.requests :
         /\ batch.members[i].pc = "done"
         /\ batch.requests[i].agentId \in DOMAIN batch.results

C28_Witness ==
  /\ batch.state = "returned"
  /\ Len(batch.requests) = 2
  /\ batch.requests[1].agentId = "nonexistent_agent" /\ ~batch.members[1].mock
  /\ ~batch.results["nonexistent_agent"].success
  /\ batch.requests[2].agentId = "recruiting" /\ batch.members[2].logged
  /\ batch.results["recruiting"].success

====
